---- MODULE Spec2Model ----
(***************************************************************************)
(* Streaming voice-reply pipeline of the "Digital Jiageng" page            *)
(* (frontend/src/pages/DigitalJiagengPage.tsx).                            *)
(*                                                                         *)
(* The page is one cooperative execution context: every action below is    *)
(* one event handler or callback run to completion.  React state is        *)
(* modelled as updated when the handler that sets it returns.  The         *)
(* streaming path is modelled (settings.enableStream keeps its default,    *)
(* true).  The browser's audio elements and the upstream event stream are  *)
(* the environment: their events are separate actions.                     *)
(*                                                                         *)
(* Time is counted in units of 0.05 s, so epsilon = 0.05 s is 1.           *)
(***************************************************************************)
EXTENDS Integers, Sequences, FiniteSets, TLC

\* ---------------------------------------------------------------- bounds
\* conversational turns (streamed requests) per behaviour
MaxTurns == 2
\* segment indices an upstream stream may deliver: 0 .. MaxSegments - 1
MaxSegments == 2
\* audio elements created per behaviour
MaxAudios == 2
\* the recording timer is counted up to this many seconds
MaxRecordingTime == 1
\* playback positions reported by timeupdate: 0 .. MaxTime
MaxTime == 3

\* ------------------------------------------------------------- constants
\* epsilon of the cue lookup, in units of 0.05 s
Epsilon == 1
\* minimal recording time in seconds of handleAudioMessageStream
MinRecordingTime == 1

Turns == 1 .. MaxTurns
SegmentIndices == 0 .. (MaxSegments - 1)
NoAudio == 0
NoMessage == 0
NoStop == -1
EmptyText == << >>

\* ------------------------------------------------------------------ text
\* A text is a sequence of tokens: a role label ("zh", "tlp"), a blank
\* (" "), a backslash, a punctuation mark or a letter.
RoleLabels == {"zh", "tlp"}
PrefixSeparators == {":", "\\", "/", "-"}
Punctuation == {",", ".", "!", "?", ";", ":", "(", ")", "[", "]", "'", "-"}

RECURSIVE DropWhile(_, _)
DropWhile(s, set) ==
  IF s # << >> /\ Head(s) \in set THEN DropWhile(Tail(s), set) ELSE s

RECURSIVE Remove(_, _)
Remove(s, set) ==
  IF s = << >> THEN << >>
  ELSE IF Head(s) \in set THEN Remove(Tail(s), set)
       ELSE <<Head(s)>> \o Remove(Tail(s), set)

RECURSIVE DropTrailing(_, _)
DropTrailing(s, set) ==
  IF s # << >> /\ s[Len(s)] \in set
  THEN DropTrailing(SubSeq(s, 1, Len(s) - 1), set) ELSE s

Trim(s) == DropTrailing(DropWhile(s, {" "}), {" "})

\* .replace(/^\s*(zh|tlp)\s*[:\\/\-]*\s*/i, '')
StripRoleLabel(s) ==
  LET lead == DropWhile(s, {" "})
  IN IF lead # << >> /\ Head(lead) \in RoleLabels
     THEN DropWhile(DropWhile(DropWhile(Tail(lead), {" "}), PrefixSeparators), {" "})
     ELSE s

stripPunctForDisplay(s) ==
  Trim(Remove(Remove(StripRoleLabel(s), {"\\"}), Punctuation))

\* --------------------------------------------------------------- segments
\* chunk.subtitles of the segment event with a given index (chunk.subtitles || [])
ChunkSubtitles(idx) ==
  CASE idx = 0 -> << [text |-> <<"zh", ":", " ", "a", ",">>, start_time |-> 0, end_time |-> 1] >>
    [] idx = 1 -> << [text |-> <<" ", "a", "\\", "!">>, start_time |-> 2, end_time |-> 3] >>
    [] OTHER   -> << >>

\* segmentData of the chunk handler; turn names the stream it came from
SegmentData(t, idx) ==
  [segmentIndex |-> idx, subtitles |-> ChunkSubtitles(idx), turn |-> t]

\* Array.prototype.sort((a, b) => a.segmentIndex - b.segmentIndex): stable
RECURSIVE InsertSorted(_, _)
InsertSorted(sorted, x) ==
  IF sorted = << >> THEN <<x>>
  ELSE IF x.segmentIndex < Head(sorted).segmentIndex THEN <<x>> \o sorted
       ELSE <<Head(sorted)>> \o InsertSorted(Tail(sorted), x)

RECURSIVE SortBySegmentIndex(_)
SortBySegmentIndex(q) ==
  IF q = << >> THEN << >>
  ELSE InsertSorted(SortBySegmentIndex(SubSeq(q, 1, Len(q) - 1)), q[Len(q)])

\* ------------------------------------------------------------------ state
VARIABLES
  audioQueue,           \* audioQueueRef.current
  currentQueueIndex,    \* currentQueueIndexRef.current
  isPlayingQueue,       \* isPlayingQueueRef.current
  currentAudio,         \* currentAudioRef.current: an audio element or NoAudio
  lastSubtitle,         \* lastSubtitleRef.current
  isRecording,          \* React state
  micPending,           \* startRecording awaits getUserMedia
  isProcessing,         \* React state: the Thinking flag
  currentlyPlaying,     \* React state: a message id or NoMessage
  currentSubtitleText,  \* React state: the cue text shown
  recordingTime,        \* React state
  messages,             \* reply messages: message id -> "absent", "idle" or "playing"
  audios,               \* the audio elements created so far, in creation order
  onstopPending,        \* recordingTime seen by a pending onstop handler, or NoStop
  streams,              \* per turn: the upstream event stream
  lastAudioFile,        \* the file of the latest request: "wav", "webm" or "none"
  firstSegmentSignals,  \* per turn: how often the first-segment branch ran
  aligner,              \* one run of generateSubtitles and refineSubtitlesWithAudio
  analyzer,             \* one run of analyzeAudioSilences
  normalizer,           \* one run of convertToWav
  segmenter             \* one run of the segmentation of generateSubtitles

vars == << audioQueue, currentQueueIndex, isPlayingQueue, currentAudio, lastSubtitle,
           isRecording, micPending, isProcessing, currentlyPlaying, currentSubtitleText,
           recordingTime, messages, audios, onstopPending, streams,
           lastAudioFile, firstSegmentSignals, aligner, analyzer, normalizer,
           segmenter >>

\* the runs of the functions that touch no page state
pureVars == << aligner, analyzer, normalizer, segmenter >>
\* no run of such a function
NotRun == [stage |-> "none"]

\* the state of the page
pageVars == << audioQueue, currentQueueIndex, isPlayingQueue, currentAudio, lastSubtitle,
               isRecording, micPending, isProcessing, currentlyPlaying,
               currentSubtitleText, recordingTime, messages, audios, onstopPending,
               streams, lastAudioFile, firstSegmentSignals >>

queueRefs == << audioQueue, currentQueueIndex, isPlayingQueue >>
recorderVars == << isRecording, micPending, recordingTime, onstopPending >>

\* the page after construction
PageInit ==
  /\ audioQueue = << >>
  /\ currentQueueIndex = 0
  /\ isPlayingQueue = FALSE
  /\ currentAudio = NoAudio
  /\ lastSubtitle = EmptyText
  /\ isRecording = FALSE
  /\ micPending = FALSE
  /\ isProcessing = FALSE
  /\ currentlyPlaying = NoMessage
  /\ currentSubtitleText = EmptyText
  /\ recordingTime = 0
  /\ messages = [t \in Turns |-> "absent"]
  /\ audios = << >>
  /\ onstopPending = NoStop
  /\ streams = [t \in Turns |-> [status |-> "none", arrived |-> {}]]
  /\ lastAudioFile = "none"
  /\ firstSegmentSignals = [t \in Turns |-> 0]

Init ==
  /\ PageInit
  /\ aligner = NotRun /\ analyzer = NotRun /\ normalizer = NotRun
  /\ segmenter = NotRun

\* ------------------------------------------------------- playNextSegment
\* new Audio(segment.audioUrl) followed by audio.play(): the element is
\* audible until it ends, fails or is paused; the promise of play() is pending
NewAudio(segment, messageId) ==
  [segment |-> segment, messageId |-> messageId, status |-> "playing",
   promise |-> "pending", errored |-> FALSE]

\* an exhaustion branch that leaves the messages as they are
MarkNotPlayingSkipped(msgs, messageId) == msgs

\* setMessages(prev => prev.map(...)) of the exhaustion branch
MarkNotPlaying(msgs, messageId) ==
  [m \in Turns |-> IF m = messageId /\ msgs[m] # "absent" THEN "idle" ELSE msgs[m]]

\* setMessages(prev => prev.map(...)) of the play branch
MarkPlaying(msgs, messageId) ==
  [m \in Turns |-> IF msgs[m] = "absent" THEN "absent"
                   ELSE IF m = messageId THEN "playing" ELSE "idle"]

\* playNextSegment(messageId), entered with the refs holding queue and index
\* and the audio elements being auds.  The branch for an undefined queue
\* entry is not reachable: every entry below queue.length is a segment.
PlayNextSegment(messageId, queue, index, auds) ==
  IF index >= Len(queue)
  THEN /\ isPlayingQueue' = FALSE
       /\ currentQueueIndex' = 0
       /\ audioQueue' = << >>
       /\ currentSubtitleText' = EmptyText
       /\ currentlyPlaying' = NoMessage
       /\ currentAudio' = NoAudio
       /\ messages' = MarkNotPlaying(messages, messageId)
       /\ audios' = auds
  ELSE /\ Len(auds) < MaxAudios
       /\ isPlayingQueue' = TRUE
       /\ currentQueueIndex' = index
       /\ audioQueue' = queue
       /\ currentSubtitleText' = currentSubtitleText
       /\ currentlyPlaying' = messageId
       /\ messages' = MarkPlaying(messages, messageId)
       /\ audios' = Append(auds, NewAudio(queue[index + 1], messageId))
       /\ currentAudio' = Len(auds) + 1

\* ------------------------------------------------- audio element callbacks
AudioIds == 1 .. Len(audios)
AudioSlots == 1 .. MaxAudios

\* the promise of play() resolves: playback has begun
PlayResolved(h) ==
  /\ h \in AudioIds
  /\ audios[h].status = "playing" /\ audios[h].promise = "pending"
  /\ audios' = [audios EXCEPT ![h].promise = "resolved"]
  /\ UNCHANGED << queueRefs, currentAudio, lastSubtitle, isProcessing, currentlyPlaying,
                  currentSubtitleText, messages, recorderVars, streams, lastAudioFile, firstSegmentSignals >>
  /\ UNCHANGED pureVars

\* the cue of audio.ontimeupdate: subtitles.find(...)?.text || ''
CueTextAt(subtitles, currentTime) ==
  LET hits == { i \in 1 .. Len(subtitles) :
                  /\ currentTime >= (IF subtitles[i].start_time - Epsilon > 0
                                     THEN subtitles[i].start_time - Epsilon ELSE 0)
                  /\ currentTime <= subtitles[i].end_time + Epsilon }
  IN IF hits = {} THEN EmptyText
     ELSE subtitles[CHOOSE i \in hits : \A j \in hits : i <= j].text

\* a cue emitted at every position report
CueChangedAlways(show, last) == TRUE

\* show !== lastSubtitleRef.current
CueChanged(show, last) == show # last

\* the display text ontimeupdate of element h computes at currentTime
Show(h, currentTime) ==
  stripPunctForDisplay(CueTextAt(audios[h].segment.subtitles, currentTime))

\* audio.ontimeupdate
TimeUpdate(h, currentTime) ==
  /\ h \in AudioIds
  /\ audios[h].status = "playing" /\ audios[h].promise = "resolved"
  /\ LET show == Show(h, currentTime)
     IN IF CueChanged(show, lastSubtitle)
        THEN lastSubtitle' = show /\ currentSubtitleText' = show
        ELSE UNCHANGED << lastSubtitle, currentSubtitleText >>
  /\ UNCHANGED << queueRefs, currentAudio, isProcessing, currentlyPlaying, messages,
                  audios, recorderVars, streams, lastAudioFile, firstSegmentSignals >>
  /\ UNCHANGED pureVars

\* audio.onended
AudioEnded(h) ==
  /\ h \in AudioIds
  /\ audios[h].status = "playing"
  /\ PlayNextSegment(audios[h].messageId, audioQueue, currentQueueIndex + 1,
                     [audios EXCEPT ![h].status = "ended", ![h].promise = "resolved"])
  /\ UNCHANGED << lastSubtitle, isProcessing, recorderVars, streams, lastAudioFile, firstSegmentSignals >>
  /\ UNCHANGED pureVars

\* audio.onerror: a failure while playing, or the error event of a load
\* failure whose play() rejection was delivered first
AudioError(h) ==
  /\ h \in AudioIds
  /\ ~audios[h].errored
  /\ \/ audios[h].status = "playing"
     \/ audios[h].status = "failed" /\ audios[h].promise = "rejected"
  /\ PlayNextSegment(audios[h].messageId, audioQueue, currentQueueIndex + 1,
                     [audios EXCEPT ![h].status = "failed", ![h].errored = TRUE])
  /\ UNCHANGED << lastSubtitle, isProcessing, recorderVars, streams, lastAudioFile, firstSegmentSignals >>
  /\ UNCHANGED pureVars

\* audio.play().catch: the pending promise is rejected (the source cannot be
\* loaded, playback is not allowed, or pause() came before playback began)
PlayRejected(h) ==
  /\ h \in AudioIds
  /\ audios[h].promise = "pending"
  /\ PlayNextSegment(audios[h].messageId, audioQueue, currentQueueIndex + 1,
                     [audios EXCEPT ![h].promise = "rejected",
                                    ![h].status = IF @ = "playing" THEN "failed" ELSE @])
  /\ UNCHANGED << lastSubtitle, isProcessing, recorderVars, streams, lastAudioFile, firstSegmentSignals >>
  /\ UNCHANGED pureVars

\* ------------------------------------------------------------- recording
\* the next turn: its reply message id is the turn number
NextTurn ==
  IF \E t \in Turns : streams[t].status = "none"
  THEN CHOOSE t \in Turns : streams[t].status = "none"
                            /\ \A u \in Turns : streams[u].status = "none" => t <= u
  ELSE MaxTurns + 1

\* startRecording up to its await of initAudioContext; a recording is begun
\* only while a turn is left, and only when no onstop handler is pending
StartRecording ==
  /\ ~isRecording
  /\ ~isProcessing /\ currentlyPlaying = NoMessage
  /\ ~micPending /\ onstopPending = NoStop
  /\ NextTurn <= MaxTurns
  /\ micPending' = TRUE
  /\ UNCHANGED << queueRefs, currentAudio, lastSubtitle, isRecording, isProcessing,
                  currentlyPlaying, currentSubtitleText, recordingTime, messages, audios,
                  onstopPending, streams, lastAudioFile, firstSegmentSignals >>
  /\ UNCHANGED pureVars

\* startRecording after the await: without a stream it returns, with one the
\* recorder and the timer are started
MicrophoneAnswer(granted) ==
  /\ micPending
  /\ micPending' = FALSE
  /\ IF granted
     THEN isRecording' = TRUE /\ recordingTime' = 0
     ELSE UNCHANGED << isRecording, recordingTime >>
  /\ UNCHANGED << queueRefs, currentAudio, lastSubtitle, isProcessing, currentlyPlaying,
                  currentSubtitleText, messages, audios, onstopPending, streams,
                  lastAudioFile, firstSegmentSignals >>
  /\ UNCHANGED pureVars

\* the one-second interval timer of startRecording
RecordingTick ==
  /\ isRecording
  /\ recordingTime < MaxRecordingTime
  /\ recordingTime' = recordingTime + 1
  /\ UNCHANGED << queueRefs, currentAudio, lastSubtitle, isRecording, micPending,
                  isProcessing, currentlyPlaying, currentSubtitleText, messages, audios,
                  onstopPending, streams, lastAudioFile, firstSegmentSignals >>
  /\ UNCHANGED pureVars

\* stopRecording: the recorder is stopped and its onstop handler installed;
\* the handler sees the recordingTime of this render
StopRecording ==
  /\ isRecording
  /\ isRecording' = FALSE
  /\ onstopPending' = recordingTime
  /\ UNCHANGED << queueRefs, currentAudio, lastSubtitle, micPending, isProcessing,
                  currentlyPlaying, currentSubtitleText, messages, audios, recordingTime,
                  streams, lastAudioFile, firstSegmentSignals >>
  /\ UNCHANGED pureVars

\* ------------------------------------------------ handleAudioMessageStream
\* handleAudioMessageStream(audioFile) up to the call of chatWithJiagengStream
HandleAudioMessageStream(file, recTime) ==
  IF recTime < MinRecordingTime
  THEN UNCHANGED << queueRefs, isProcessing, messages, streams, lastAudioFile >>
  ELSE /\ NextTurn <= MaxTurns
       /\ messages' = [messages EXCEPT ![NextTurn] = "idle"]
       /\ isProcessing' = TRUE
       /\ audioQueue' = << >>
       /\ currentQueueIndex' = 0
       /\ isPlayingQueue' = FALSE
       /\ streams' = [streams EXCEPT ![NextTurn].status = "open"]
       /\ lastAudioFile' = file

\* the try block of the onstop handler after convertToWav resolved
OnStopTry(recTime) == HandleAudioMessageStream("wav", recTime)

\* a catch block that gives the turn up
OnStopCatchAborts(recTime) ==
  UNCHANGED << queueRefs, isProcessing, messages, streams, lastAudioFile >>

\* the catch block of the onstop handler: convertToWav rejected, the raw
\* recording is submitted in its place
OnStopCatch(recTime) == HandleAudioMessageStream("webm", recTime)

\* mediaRecorder.onstop of stopRecording
OnStop(convertOk) ==
  /\ onstopPending # NoStop
  /\ onstopPending' = NoStop
  /\ IF convertOk THEN OnStopTry(onstopPending) ELSE OnStopCatch(onstopPending)
  /\ UNCHANGED << currentAudio, lastSubtitle, isRecording, micPending, currentlyPlaying,
                  currentSubtitleText, recordingTime, audios, firstSegmentSignals >>
  /\ UNCHANGED pureVars

\* ------------------------------------------------------ stream callbacks
\* a stream whose callback can still be called; "stale" is an open stream
\* that was in flight when handleNewConversation ran
Open(t) == streams[t].status \in {"open", "stale"}

\* the stream after its last event ("ended": the call threw, or returned
\* without a 'complete' or 'error' chunk); the indices it delivered are kept
\* for a reply that completed within its session
Closed(t, how) ==
  [status |-> how,
   arrived |-> IF how = "complete" /\ streams[t].status = "open"
               THEN streams[t].arrived ELSE {}]

\* a first-segment branch taken for every segment
IsFirstSegmentAlways(queue, playing) == TRUE

\* the condition of the first-segment branch
IsFirstSegment(queue, playing) == Len(queue) = 1 /\ ~playing

\* chunk.type === 'segment', with audio_url and text present
SegmentChunk(t, idx) ==
  /\ Open(t)
  /\ idx \notin streams[t].arrived
  /\ streams' = [streams EXCEPT ![t].arrived = @ \cup {idx}]
  /\ LET queue == SortBySegmentIndex(Append(audioQueue, SegmentData(t, idx)))
     IN IF IsFirstSegment(queue, isPlayingQueue)
        THEN /\ isProcessing' = FALSE
             /\ firstSegmentSignals' = [firstSegmentSignals EXCEPT ![t] = @ + 1]
             /\ PlayNextSegment(t, queue, currentQueueIndex, audios)
        ELSE /\ audioQueue' = queue
             /\ UNCHANGED << currentQueueIndex, isPlayingQueue, currentAudio, isProcessing,
                             currentlyPlaying, currentSubtitleText, messages, audios,
                             firstSegmentSignals >>
  /\ UNCHANGED << lastSubtitle, recorderVars, lastAudioFile >>
  /\ UNCHANGED pureVars

\* chunk.type === 'complete'
CompleteChunk(t) ==
  /\ Open(t)
  /\ streams' = [streams EXCEPT ![t] = Closed(t, "complete")]
  /\ isProcessing' = FALSE
  /\ UNCHANGED << queueRefs, currentAudio, lastSubtitle, currentlyPlaying,
                  currentSubtitleText, messages, audios, recorderVars, lastAudioFile, firstSegmentSignals >>
  /\ UNCHANGED pureVars

\* chunk.type === 'error'
ErrorChunk(t) ==
  /\ Open(t)
  /\ streams' = [streams EXCEPT ![t] = Closed(t, "error")]
  /\ isProcessing' = FALSE
  /\ currentlyPlaying' = NoMessage
  /\ UNCHANGED << queueRefs, currentAudio, lastSubtitle, currentSubtitleText, messages,
                  audios, recorderVars, lastAudioFile, firstSegmentSignals >>
  /\ UNCHANGED pureVars

\* chatWithJiagengStream throws: the catch of handleAudioMessageStream
StreamThrow(t) ==
  /\ Open(t)
  /\ streams' = [streams EXCEPT ![t] = Closed(t, "ended")]
  /\ isProcessing' = FALSE
  /\ UNCHANGED << queueRefs, currentAudio, lastSubtitle, currentlyPlaying,
                  currentSubtitleText, messages, audios, recorderVars, lastAudioFile, firstSegmentSignals >>
  /\ UNCHANGED pureVars

\* a chunk the callback does nothing for: a segment without audio_url or
\* text, or a chunk of another type
IgnoredChunk(t) ==
  /\ Open(t)
  /\ UNCHANGED vars

\* chatWithJiagengStream returns without a 'complete' or 'error' chunk: no
\* statement follows the await
StreamReturns(t) ==
  /\ Open(t)
  /\ streams' = [streams EXCEPT ![t] = Closed(t, "ended")]
  /\ UNCHANGED << queueRefs, currentAudio, lastSubtitle, isProcessing, currentlyPlaying,
                  currentSubtitleText, messages, audios, recorderVars, lastAudioFile, firstSegmentSignals >>
  /\ UNCHANGED pureVars

\* ---------------------------------------------------- handleNewConversation
\* a reset that releases the element without pausing it
PauseSkipped(auds, h) == auds

\* currentAudioRef.current.pause()
Pause(auds, h) ==
  IF h = NoAudio THEN auds
  ELSE [auds EXCEPT ![h].status = IF @ = "playing" THEN "paused" ELSE @]

\* handleNewConversation; a recorder stopped here has no onstop handler yet.
\* Streams still open are marked stale: their events belong to the old session.
NewConversation ==
  /\ audios' = Pause(audios, currentAudio)
  /\ currentAudio' = NoAudio
  /\ isRecording' = FALSE
  /\ messages' = [t \in Turns |-> "absent"]
  /\ currentlyPlaying' = NoMessage
  /\ currentSubtitleText' = EmptyText
  /\ isProcessing' = FALSE
  /\ recordingTime' = 0
  /\ lastSubtitle' = EmptyText
  /\ audioQueue' = << >>
  /\ currentQueueIndex' = 0
  /\ isPlayingQueue' = FALSE
  /\ streams' = [t \in Turns |-> IF streams[t].status = "open"
                                  THEN [streams[t] EXCEPT !.status = "stale"] ELSE streams[t]]
  /\ UNCHANGED << micPending, onstopPending, lastAudioFile, firstSegmentSignals >>
  /\ UNCHANGED pureVars

\* ------------------------------------------------------------ specification
Next ==
  \/ StartRecording
  \/ \E granted \in BOOLEAN : MicrophoneAnswer(granted)
  \/ RecordingTick
  \/ StopRecording
  \/ \E convertOk \in BOOLEAN : OnStop(convertOk)
  \/ \E t \in Turns, idx \in SegmentIndices : SegmentChunk(t, idx)
  \/ \E t \in Turns : CompleteChunk(t)
  \/ \E t \in Turns : ErrorChunk(t)
  \/ \E t \in Turns : StreamThrow(t)
  \/ \E t \in Turns : IgnoredChunk(t)
  \/ \E t \in Turns : StreamReturns(t)
  \/ \E h \in AudioSlots : PlayResolved(h)
  \/ \E h \in AudioSlots, currentTime \in 0 .. MaxTime : TimeUpdate(h, currentTime)
  \/ \E h \in AudioSlots : AudioEnded(h)
  \/ \E h \in AudioSlots : AudioError(h)
  \/ \E h \in AudioSlots : PlayRejected(h)
  \/ NewConversation

Spec == Init /\ [][Next]_vars

\* ------------------------------------------------- double-precision numbers
\* The numbers of the page are IEEE 754 doubles.  A positive double is
\* m * 2^e with a significand m of exactly 53 bits; zero has m = 0.  Only the
\* operations the page applies are defined: the quotient of two integers,
\* the product with an integer, floor, ceil and comparison, each rounded to
\* nearest, ties to even.  A significand is a natural number written in
\* limbs of 13 bits, least significant first, without leading zero limbs.

\* bits of the significand of a double
Precision == 53
\* bits of a limb
LimbBits == 13

RECURSIVE Pow2(_)
Pow2(k) == IF k <= 0 THEN 1 ELSE 2 * Pow2(k - 1)

Base == Pow2(LimbBits)

\* a natural number below 2^31 in limbs
RECURSIVE Limbs(_)
Limbs(n) == IF n = 0 THEN << >> ELSE <<n % Base>> \o Limbs(n \div Base)

\* the number a few limbs stand for
RECURSIVE NatOfLimbs(_)
NatOfLimbs(x) == IF x = << >> THEN 0 ELSE Head(x) + Base * NatOfLimbs(Tail(x))

\* limbs without leading zero limbs
RECURSIVE Trimmed(_)
Trimmed(x) ==
  IF x # << >> /\ x[Len(x)] = 0 THEN Trimmed(SubSeq(x, 1, Len(x) - 1)) ELSE x

\* the bits of a natural number below 2^31
RECURSIVE BitLength(_)
BitLength(n) == IF n = 0 THEN 0 ELSE 1 + BitLength(n \div 2)

\* the bits of a number in limbs
LimbsBitLength(x) ==
  IF x = << >> THEN 0 ELSE LimbBits * (Len(x) - 1) + BitLength(x[Len(x)])

\* x * k + carry, k below 2^17
RECURSIVE TimesSmall(_, _, _)
TimesSmall(x, k, carry) ==
  IF x = << >> THEN Limbs(carry)
  ELSE LET v == Head(x) * k + carry
       IN <<v % Base>> \o TimesSmall(Tail(x), k, v \div Base)

\* x * 2^s
ShiftLeft(x, s) ==
  IF x = << >> THEN << >>
  ELSE [i \in 1 .. (s \div LimbBits) |-> 0] \o TimesSmall(x, Pow2(s % LimbBits), 0)

\* quotient and remainder of x by d, d at most 2^18; the limbs of x are
\* taken from the most significant, rem being what the limbs above left
RECURSIVE DivSmallFrom(_, _, _, _)
DivSmallFrom(x, i, d, rem) ==
  IF i = 0 THEN [quot |-> << >>, rem |-> rem]
  ELSE LET v == rem * Base + x[i]
           rest == DivSmallFrom(x, i - 1, d, v % d)
       IN [quot |-> Append(rest.quot, v \div d), rem |-> rest.rem]

DivSmall(x, d) ==
  LET r == DivSmallFrom(x, Len(x), d, 0)
  IN [quot |-> Trimmed(r.quot), rem |-> r.rem]

\* x / 2^s, and whether bits were lost
ShiftRight(x, s) ==
  LET whole == s \div LimbBits
      dropped == SubSeq(x, 1, IF whole <= Len(x) THEN whole ELSE Len(x))
      kept == SubSeq(x, whole + 1, Len(x))
      r == DivSmall(kept, Pow2(s % LimbBits))
  IN [quot |-> r.quot,
      lost |-> r.rem # 0 \/ \E i \in 1 .. Len(dropped) : dropped[i] # 0]

\* x + 1
RECURSIVE PlusOne(_)
PlusOne(x) ==
  IF x = << >> THEN <<1>>
  ELSE IF Head(x) + 1 < Base THEN <<Head(x) + 1>> \o Tail(x)
       ELSE <<0>> \o PlusOne(Tail(x))

\* x < y for numbers in limbs
RECURSIVE LimbsLessFrom(_, _, _)
LimbsLessFrom(x, y, i) ==
  IF i = 0 THEN FALSE
  ELSE IF x[i] # y[i] THEN x[i] < y[i]
       ELSE LimbsLessFrom(x, y, i - 1)

LimbsLess(x, y) ==
  IF Len(x) # Len(y) THEN Len(x) < Len(y) ELSE LimbsLessFrom(x, y, Len(x))

Zero == [m |-> << >>, e |-> 0]

\* the double nearest to (q + rem / d) * 2^e, q of exactly 53 bits:
\* up when more than half is left, or exactly half and q is odd
Rounded(q, rem, d, e) ==
  LET odd == q # << >> /\ Head(q) % 2 = 1
      up == 2 * rem > d \/ (2 * rem = d /\ odd)
      next == IF up THEN PlusOne(q) ELSE q
  IN IF LimbsBitLength(next) > Precision
     THEN [m |-> ShiftRight(next, 1).quot, e |-> e + 1]
     ELSE [m |-> next, e |-> e]

\* a / b of two integers, a >= 0, 0 < b <= 2^17
Quotient(a, b) ==
  IF a = 0 THEN Zero
  ELSE LET s0 == Precision - (BitLength(a) - BitLength(b))
           q0 == DivSmall(ShiftLeft(Limbs(a), s0), b)
           s == IF LimbsBitLength(q0.quot) > Precision THEN s0 - 1 ELSE s0
           q == IF s = s0 THEN q0 ELSE DivSmall(ShiftLeft(Limbs(a), s), b)
       IN Rounded(q.quot, q.rem, b, -s)

\* x * k for a double x and an integer k, 0 <= k < 2^17
Product(x, k) ==
  IF x.m = << >> \/ k = 0 THEN Zero
  ELSE LET p == TimesSmall(x.m, k, 0)
           t == LimbsBitLength(p) - Precision
           r == DivSmall(p, Pow2(t))
       IN Rounded(r.quot, r.rem, Pow2(t), x.e + t)

\* Math.floor of a double below 2^31
MathFloor(x) ==
  IF x.m = << >> THEN 0
  ELSE IF x.e >= 0 THEN NatOfLimbs(ShiftLeft(x.m, x.e))
  ELSE NatOfLimbs(ShiftRight(x.m, -x.e).quot)

\* whether a double has a fraction
HasFraction(x) == x.m # << >> /\ x.e < 0 /\ ShiftRight(x.m, -x.e).lost

\* Math.ceil of a double below 2^31
MathCeil(x) == MathFloor(x) + (IF HasFraction(x) THEN 1 ELSE 0)

\* x < y for doubles x, y >= 0
Less(x, y) ==
  IF y.m = << >> THEN FALSE
  ELSE IF x.m = << >> THEN TRUE
  ELSE IF x.e # y.e THEN x.e < y.e
  ELSE LimbsLess(x.m, y.m)

\* ------------------------------------------------------- subtitle aligner
\* generateSubtitles and refineSubtitlesWithAudio of
\* frontend/src/pages/DigitalJiagengPage copy.tsx.  Times are in
\* milliseconds; the arithmetic is exact.

\* chunks of a reply: 0 .. MaxChunks
MaxChunks == 3
\* clip durations: 0 .. MaxDuration steps of DurationStep
MaxDuration == 4
\* boundaries in a profile: 0 .. MaxBoundaries
MaxBoundaries == 2
\* boundary times: 1 .. MaxBoundaryPos steps of BoundaryStep
MaxBoundaryPos == 8
\* onset times: 0 .. MaxOnset steps of OnsetStep
MaxOnset == 4

\* a step every chunk count up to six divides
DurationStep == 50 * 6
BoundaryStep == 10 * 10
OnsetStep == 10 * 5

\* eps of refineSubtitlesWithAudio: 0.15 s
Eps == 150
\* the cap of the onset shift: 0.15 s
MaxShift == 150
\* the least length an adjusted cue is stretched to: 0.2 s
MinStretch == 200
\* MIN_DUR of the sanity check: 0.25 s
MIN_DUR == 250
\* the overlap the sanity check tolerates: 1e-3 s
Tolerance == 1
\* the total generateSubtitles uses per chunk without a duration: 1 s
SecondMs == 1000

\* undefined, and NaN in arithmetic: an array read past the end
NaN == -1000000

Minus(a, b) == IF a = NaN \/ b = NaN THEN NaN ELSE a - b
Plus(a, b) == IF a = NaN \/ b = NaN THEN NaN ELSE a + b
\* Math.max, Math.min
MathMax(a, b) == IF a = NaN \/ b = NaN THEN NaN ELSE IF a >= b THEN a ELSE b
MathMin(a, b) == IF a = NaN \/ b = NaN THEN NaN ELSE IF a <= b THEN a ELSE b
\* a >= b, false when either is NaN
AtLeast(a, b) == a # NaN /\ b # NaN /\ a >= b

\* a cue
Cue(text, start, end) == [text |-> text, start_time |-> start, end_time |-> end]

\* the tail of generateSubtitles: displaySegs divided equally over the clip
EqualDivision(displaySegs, durationSec) ==
  LET n == MathMax(1, Len(displaySegs))
      total == IF durationSec > 0 THEN durationSec ELSE n * SecondMs
      slot == total \div n
  IN [i \in 1 .. n |->
        Cue(IF i <= Len(displaySegs) THEN displaySegs[i] ELSE EmptyText,
            (i - 1) * slot,
            IF i = n THEN total ELSE i * slot)]

\* generateSubtitles(rawText, durationSec); the text is given by the chunks
\* its segmentation yields (hasText is false for a blank rawText)
generateSubtitles(hasText, displaySegs, durationSec) ==
  IF ~hasText THEN << >> ELSE EqualDivision(displaySegs, durationSec)

\* numbers.sort((a, b) => a - b)
RECURSIVE InsertAscending(_, _)
InsertAscending(sorted, x) ==
  IF sorted = << >> THEN <<x>>
  ELSE IF x < Head(sorted) THEN <<x>> \o sorted
       ELSE <<Head(sorted)>> \o InsertAscending(Tail(sorted), x)

RECURSIVE SortAscending(_)
SortAscending(q) ==
  IF q = << >> THEN << >>
  ELSE InsertAscending(SortAscending(SubSeq(q, 1, Len(q) - 1)), q[Len(q)])

\* bt: the boundaries away from both ends of the clip, ascending
Usable(boundaryTimes, duration) ==
  LET Inside(t) == t > Eps /\ t < duration - Eps
  IN SortAscending(SelectSeq(boundaryTimes, Inside))

\* a shift without the cap
ShiftUncapped(onsetTime) == MathMax(0, onsetTime)

\* shift
Shift(onsetTime) == MathMin(MathMax(0, onsetTime), MaxShift)

\* a quality test that does not count the boundaries
QualityOkUncounted(duration, bt, n) == duration > 0 /\ n >= 2

\* qualityOk
QualityOk(duration, bt, n) == duration > 0 /\ Len(bt) >= n - 1 /\ n >= 2

\* bt.slice(0, n - 1)
Cut(bt, n) == SubSeq(bt, 1, IF n - 1 <= Len(bt) THEN n - 1 ELSE Len(bt))

\* cut[i], i counted from 0
CutAt(cut, i) == IF i + 1 <= Len(cut) THEN cut[i + 1] ELSE NaN

\* the loop that builds results: iteration i (from 0) entered with start
RECURSIVE FitFrom(_, _, _, _, _, _)
FitFrom(i, start, fallback, cut, duration, shift) ==
  LET n == MathMax(1, Len(fallback))
      end == IF i = n - 1 THEN duration ELSE CutAt(cut, i)
      adjStart == MathMax(0, Minus(start, shift))
      adjEnd == MathMax(Plus(adjStart, MinStretch), Minus(end, shift))
      text == IF i + 1 <= Len(fallback) THEN fallback[i + 1].text ELSE EmptyText
  IN IF i >= n THEN << >>
     ELSE <<Cue(text, adjStart, adjEnd)>>
          \o FitFrom(i + 1, end, fallback, cut, duration, shift)

\* a sanity check that accepts every fitted list
MonotonicUnchecked(results) == TRUE

\* monotonic: the sanity check of the fitted cues
Monotonic(results) ==
  \A i \in 1 .. Len(results) :
    /\ AtLeast(Minus(results[i].end_time, results[i].start_time), MIN_DUR)
    /\ i > 1 => AtLeast(results[i].start_time,
                        Minus(results[i - 1].end_time, Tolerance))

\* the shifted fallback
Shifted(fallback, shift) ==
  [i \in 1 .. Len(fallback) |->
     LET ns == MathMax(0, Minus(fallback[i].start_time, shift))
         ne == MathMax(Plus(ns, MinStretch), Minus(fallback[i].end_time, shift))
     IN Cue(fallback[i].text, ns, ne)]

\* refineSubtitlesWithAudio(audioUrl, rawText, fallback), with the profile
\* analyzeAudioSilences returned; path names the return statement taken
refineSubtitlesWithAudio(profile, fallback) ==
  LET n == MathMax(1, Len(fallback))
      bt == Usable(profile.boundaryTimes, profile.duration)
      shift == Shift(profile.onsetTime)
      results == FitFrom(0, 0, fallback, Cut(bt, n), profile.duration, shift)
  IN IF QualityOk(profile.duration, bt, n)
     THEN IF ~Monotonic(results)
          THEN [cues |-> fallback, path |-> "rejected"]
          ELSE [cues |-> results, path |-> "fitted"]
     ELSE IF shift > 0 /\ n >= 2
          THEN [cues |-> Shifted(fallback, shift), path |-> "shifted"]
          ELSE [cues |-> fallback, path |-> "fallback"]

\* the ascending sequence of a set of numbers
RECURSIVE Ascending(_)
Ascending(set) ==
  IF set = {} THEN << >>
  ELSE LET least == CHOOSE x \in set : \A y \in set : x <= y
       IN <<least>> \o Ascending(set \ {least})

\* the chunk texts of a reply of k chunks: chunk i is i letters
Chunks(k) == [i \in 1 .. k |-> [j \in 1 .. i |-> "a"]]

\* the profiles analyzeAudioSilences may return for a clip of a duration:
\* boundaries inside the clip, or the empty profile of a failed analysis
Profiles(duration) ==
  { [boundaryTimes |-> Ascending(b), duration |-> duration, onsetTime |-> o * OnsetStep] :
      b \in { c \in SUBSET { k * BoundaryStep : k \in 1 .. MaxBoundaryPos } :
                /\ Cardinality(c) <= MaxBoundaries
                /\ \A t \in c : t < duration },
      o \in { x \in 0 .. MaxOnset : x * OnsetStep < duration \/ x = 0 } }
  \cup { [boundaryTimes |-> << >>, duration |-> 0, onsetTime |-> 0] }

\* a reply text (blank, or cut into k chunks), the duration of its clip and
\* the profile of the clip
AlignerInputs ==
  UNION { { [stage |-> "input", hasText |-> h, displaySegs |-> Chunks(k),
             durationSec |-> d * DurationStep, profile |-> p,
             fallback |-> << >>, cues |-> << >>, path |-> "none"] :
              h \in { x \in BOOLEAN : x \/ k = 0 },
              p \in Profiles(d * DurationStep) } :
          k \in 0 .. MaxChunks, d \in 0 .. MaxDuration }

\* the caller computes the equal division of the reply
GenerateSubtitles ==
  /\ aligner.stage = "input"
  /\ aligner' = [aligner EXCEPT
                   !.stage = "generated",
                   !.fallback = generateSubtitles(aligner.hasText, aligner.displaySegs,
                                                  aligner.durationSec)]
  /\ UNCHANGED << pageVars, analyzer, normalizer, segmenter >>

\* the caller refines it against the audio
RefineSubtitlesWithAudio ==
  /\ aligner.stage = "generated"
  /\ LET r == refineSubtitlesWithAudio(aligner.profile, aligner.fallback)
     IN aligner' = [aligner EXCEPT !.stage = "refined", !.cues = r.cues, !.path = r.path]
  /\ UNCHANGED << pageVars, analyzer, normalizer, segmenter >>

AlignerInit ==
  /\ PageInit
  /\ aligner \in AlignerInputs
  /\ analyzer = NotRun /\ normalizer = NotRun /\ segmenter = NotRun

AlignerNext ==
  \/ GenerateSubtitles
  \/ RefineSubtitlesWithAudio

SpecAligner == AlignerInit /\ [][AlignerNext]_vars


\* --------------------------------------------------------------- segmenter
\* the segmentation of generateSubtitles.  A raw text is a sequence of
\* characters: letters, blanks and punctuation marks.

\* pieces of a raw text: 1 .. MaxPieces
MaxPieces == 3
\* letters of the longest piece
MaxPieceLength == 13

\* MAX_CHARS
MAX_CHARS == 12
\* punctSet
SentenceEnders == {",", ".", "!", "?"}
\* \s
Blanks == {" "}

\* text.split(/\s+/).filter(Boolean): the words of s after the word begun
RECURSIVE SplitOnBlanks(_, _)
SplitOnBlanks(s, word) ==
  LET done == IF word = << >> THEN << >> ELSE << word >>
  IN IF s = << >> THEN done
     ELSE IF Head(s) \in Blanks THEN done \o SplitOnBlanks(Tail(s), << >>)
     ELSE SplitOnBlanks(Tail(s), Append(word, Head(s)))

\* the sentence a buffer holds, if any: seg = buf.trim(); if (seg) push
Pushed(buf) == IF Trim(buf) = << >> THEN << >> ELSE << Trim(buf) >>

\* a split that drops what follows the last mark
RECURSIVE SentencesTerminatedOnly(_, _)
SentencesTerminatedOnly(s, buf) ==
  IF s = << >> THEN << >>
  ELSE IF Head(s) \in SentenceEnders
       THEN Pushed(Append(buf, Head(s))) \o SentencesTerminatedOnly(Tail(s), << >>)
       ELSE SentencesTerminatedOnly(Tail(s), Append(buf, Head(s)))

\* the loop over the characters of the text, buf holding the sentence begun
RECURSIVE Sentences(_, _)
Sentences(s, buf) ==
  IF s = << >> THEN Pushed(buf)
  ELSE IF Head(s) \in SentenceEnders
       THEN Pushed(Append(buf, Head(s))) \o Sentences(Tail(s), << >>)
       ELSE Sentences(Tail(s), Append(buf, Head(s)))

\* the loop of step 4: noPunct.slice(i, i + MAX_CHARS) from i on
RECURSIVE Windows(_, _)
Windows(noPunct, i) ==
  IF i >= Len(noPunct) THEN << >>
  ELSE << SubSeq(noPunct, i + 1, MathMin(i + MAX_CHARS, Len(noPunct))) >>
       \o Windows(noPunct, i + MAX_CHARS)

\* segs of generateSubtitles for the trimmed text
Segs(text) ==
  LET spaceParts == SplitOnBlanks(text, << >>)
      sentences == Sentences(text, << >>)
      segs == IF Len(sentences) <= 1 /\ Len(spaceParts) > 1
              THEN spaceParts ELSE sentences
  IN IF Len(spaceParts) >= 3 THEN spaceParts
     ELSE IF Len(segs) <= 1 THEN Windows(stripPunctForDisplay(text), 0)
     ELSE segs

\* displaySegs
DisplaySegs(segs) == [i \in 1 .. Len(segs) |-> stripPunctForDisplay(segs[i])]

\* a piece of a raw text: a word of one letter and what follows it
Letters == << "a", "b", "c", "d" >>
Word(letter, length) == [i \in 1 .. length |-> letter]
Separators == { << >>, << " " >>, << "," >>, << ",", " " >>, << ";" >> }
PieceLengths == {1, MaxPieceLength \div 2, MaxPieceLength}

RECURSIVE Joined(_)
Joined(pieces) ==
  IF pieces = << >> THEN << >> ELSE Head(pieces) \o Joined(Tail(pieces))

RawTexts ==
  UNION { { Joined([i \in 1 .. k |-> Word(Letters[i], lengths[i]) \o seps[i]]) :
              lengths \in [1 .. k -> PieceLengths], seps \in [1 .. k -> Separators] } :
          k \in 1 .. MaxPieces }

\* generateSubtitles cuts the raw text into chunks
Segment ==
  /\ segmenter.stage = "input"
  /\ LET text == Trim(segmenter.rawText)
         segs == IF text = << >> THEN << >> ELSE Segs(text)
     IN segmenter' = [stage |-> "segmented", rawText |-> segmenter.rawText,
                      segs |-> segs, displaySegs |-> DisplaySegs(segs)]
  /\ UNCHANGED << pageVars, aligner, analyzer, normalizer >>

SegmenterInit ==
  /\ PageInit
  /\ segmenter \in { [stage |-> "input", rawText |-> t] : t \in RawTexts }
  /\ aligner = NotRun /\ analyzer = NotRun /\ normalizer = NotRun

SegmenterNext == Segment

SpecSegmenter == SegmenterInit /\ [][SegmenterNext]_vars

\* -------------------------------------------------------------- normalizer
\* convertToWav of frontend/src/pages/DigitalJiagengPage.tsx

\* decoded lengths in samples: 1 .. MaxLength
MaxLength == 6025

\* targetSampleRate
TargetSampleRate == 16000
\* the bytes of the WAV header
HeaderBytes == 44
\* the bytes of a 16-bit sample
BytesPerSample == 2

\* the sample rates of the decoding AudioContext
DecodeRates == {TargetSampleRate, 3 * TargetSampleRate}

\* the length of the OfflineAudioContext: Math.ceil(targetSampleRate * duration),
\* duration being decoded.duration = length / sampleRate
RenderLength(decoded) ==
  MathCeil(Product(Quotient(decoded.length, decoded.sampleRate), TargetSampleRate))

\* convertToWav(blob) once the blob is decoded: pcm is the rendered buffer,
\* and the sizes are those written into the header
convertToWav(decoded) ==
  LET pcmLength == RenderLength(decoded)
  IN [pcmLength |-> pcmLength,
      byteLength |-> HeaderBytes + pcmLength * BytesPerSample,
      riffSize |-> HeaderBytes - 8 + pcmLength * BytesPerSample,
      dataSize |-> pcmLength * BytesPerSample,
      sampleRate |-> TargetSampleRate,
      numberOfChannels |-> 1]

\* the most channels of a decoded buffer
MaxChannels == 3
\* the values of a sample, in quarters
Levels == {-3, 3}

\* ch0[i] as copied into monoBuffer, decoded.samples being the samples the
\* channels hold at index i: channel 0, averaged with channel 1 when the
\* buffer has more than one channel
Downmix(decoded) ==
  IF decoded.numberOfChannels > 1
  THEN (decoded.samples[1] + decoded.samples[2]) \div 2
  ELSE decoded.samples[1]

NormalizerInputs ==
  { [stage |-> "input",
     decoded |-> [length |-> l, sampleRate |-> r, numberOfChannels |-> Len(samples),
                  samples |-> samples]] :
      l \in 1 .. MaxLength, r \in DecodeRates,
      samples \in UNION { [1 .. c -> Levels] : c \in 1 .. MaxChannels } }

\* convertToWav resolves
ConvertToWav ==
  /\ normalizer.stage = "input"
  /\ normalizer' = [stage |-> "converted", decoded |-> normalizer.decoded,
                    monoBuffer |-> Downmix(normalizer.decoded),
                    wav |-> convertToWav(normalizer.decoded)]
  /\ UNCHANGED << pageVars, aligner, analyzer, segmenter >>

\* decodeAudioData rejects, and convertToWav with it
ConvertRejected ==
  /\ normalizer.stage = "input"
  /\ normalizer' = [stage |-> "rejected", decoded |-> normalizer.decoded]
  /\ UNCHANGED << pageVars, aligner, analyzer, segmenter >>

NormalizerInit ==
  /\ PageInit
  /\ normalizer \in NormalizerInputs
  /\ aligner = NotRun /\ analyzer = NotRun /\ segmenter = NotRun

NormalizerNext ==
  \/ ConvertToWav
  \/ ConvertRejected

SpecNormalizer == NormalizerInit /\ [][NormalizerNext]_vars

\* ---------------------------------------------------------------- analyzer
\* analyzeAudioSilences of frontend/src/pages/DigitalJiagengPage copy.tsx.
\* A clip is a few runs of samples of one amplitude each, a run being a
\* number of hops long; amplitudes are in 256ths of full scale, so that the
\* samples, their squares and the sum of the squares of a frame are exact
\* doubles.  The root mean square of a frame is kept as that sum: all frames
\* have the same size, so comparing the sums compares the root mean squares,
\* and the amplitudes are chosen off the thresholds so that no comparison
\* hangs on the rounding of a division or a square root.

\* runs of a clip: 1 .. MaxRuns
MaxRuns == 3
\* hops of the longest run
MaxRunLength == 5300

FrameMs == 20
HopMs == 10
MinVoiceMs == 120
MinSilenceMs == 180
\* the percentile of the dynamic threshold, in hundredths
Percentile == 35
\* the default of q, the clamp of the threshold and the cap of the onset
\* threshold, in thousandths of full scale
DefaultQ == 10
MinThreshold == 5
MaxThreshold == 30
MaxOnsetThreshold == 80
\* sums of squares are compared in 625ths
SumScale == 625

\* SumScale times the sum of the squares of a frame of samples of amplitude
\* t thousandths, t a multiple of 5: a sample squared is
\* t^2 * 256^2 / 1000^2 = t^2 * 1024 / (25 * SumScale)
SumOfLevel(t, frameSize) == ((t * t * 1024) \div 25) * frameSize

\* Math.max(1, Math.floor(sampleRate * (ms / 1000)))
SamplesOf(sampleRate, ms) ==
  MathMax(1, MathFloor(Product(Quotient(ms, SecondMs), sampleRate)))

minVoiceFrames == MathMax(1, MinVoiceMs \div HopMs)
minSilenceFrames == MathMax(1, MinSilenceMs \div HopMs)

\* the amplitudes of a run
Amplitudes == {0, 1, 3, 13}
\* the lengths of a run, in hops
RunLengths == {2, minVoiceFrames + 1, minSilenceFrames + 2, MaxRunLength}
\* the sample rates of the decoding AudioContext
AnalyzerRates == {16000, 22050}

RECURSIVE Hops(_)
Hops(runs) == IF runs = << >> THEN 0 ELSE Head(runs).hops + Hops(Tail(runs))

\* the squared sample of hop j (from 0) of the runs
RECURSIVE SquareAt(_, _)
SquareAt(runs, j) ==
  IF runs = << >> THEN 0
  ELSE IF j < Head(runs).hops THEN Head(runs).amplitude * Head(runs).amplitude
       ELSE SquareAt(Tail(runs), j - Head(runs).hops)

\* channel.length of a clip
ChannelLength(clip, hopSize) == Hops(clip.runs) * hopSize

\* rms.length: the frames i with i * hopSize + frameSize <= channel.length
FrameCount(length, frameSize, hopSize) ==
  IF length < frameSize THEN 0 ELSE (length - frameSize) \div hopSize + 1

\* sum of the squared samples of frame i: two hops and what is left of the
\* frame in the third
SquareSum(runs, i, frameSize, hopSize) ==
  LET second == MathMin(hopSize, frameSize - hopSize)
      third == frameSize - hopSize - second
  IN MathMin(hopSize, frameSize) * SquareAt(runs, i)
     + second * SquareAt(runs, i + 1)
     + third * SquareAt(runs, i + 2)

\* a group of `count` frames like frame i
FrameGroup(clip, i, count, frameSize, hopSize) ==
  [sum |-> SquareSum(clip.runs, i, frameSize, hopSize), count |-> count]

\* the frames of the clip from frame i on, first hop of the first run being
\* hop `from`, as groups of consecutive frames of one sum: the frames inside
\* a run have the same samples, the last two of a run reach into the next
RECURSIVE FrameGroups(_, _, _, _, _, _)
FrameGroups(clip, runs, from, frames, frameSize, hopSize) ==
  IF runs = << >> THEN << >>
  ELSE LET to == from + Head(runs).hops
           inside == MathMax(0, MathMin(to - 2, frames) - from)
           first == MathMax(from, to - 2)
       IN (IF inside > 0
           THEN << FrameGroup(clip, from, inside, frameSize, hopSize) >>
           ELSE << >>)
          \o (IF first < frames
              THEN << FrameGroup(clip, first, 1, frameSize, hopSize) >>
              ELSE << >>)
          \o (IF first < to - 1 /\ to - 1 < frames
              THEN << FrameGroup(clip, to - 1, 1, frameSize, hopSize) >>
              ELSE << >>)
          \o FrameGroups(clip, Tail(runs), to, frames, frameSize, hopSize)

\* the frames of the groups whose sum is at most `sum`
RECURSIVE CountUpTo(_, _)
CountUpTo(groups, sum) ==
  IF groups = << >> THEN 0
  ELSE (IF Head(groups).sum <= sum THEN Head(groups).count ELSE 0)
       + CountUpTo(Tail(groups), sum)

\* sorted[Math.floor(sorted.length * 0.35)], or -1 where it is undefined
PercentileSum(groups, frames) ==
  LET index == MathFloor(Product(Quotient(Percentile, 100), frames))
      sums == { groups[g].sum : g \in DOMAIN groups }
      reached == { sum \in sums : CountUpTo(groups, sum) > index }
  IN IF reached = {} THEN -1
     ELSE CHOOSE sum \in reached : \A other \in reached : sum <= other

\* threshold = Math.max(0.005, Math.min(0.03, q)), q = sorted[..] || 0.01
Threshold(groups, frames, frameSize) ==
  LET sum == PercentileSum(groups, frames)
      q == IF sum <= 0 THEN SumOfLevel(DefaultQ, frameSize) ELSE SumScale * sum
  IN MathMax(SumOfLevel(MinThreshold, frameSize),
             MathMin(SumOfLevel(MaxThreshold, frameSize), q))

\* rms[idx] >= Math.min(0.08, threshold * 1.6), 1.6 squared being 64 / 25
Voiced(sum, threshold, frameSize) ==
  \/ SumScale * sum >= SumOfLevel(MaxOnsetThreshold, frameSize)
  \/ 25 * SumScale * sum >= 64 * threshold

\* a silent group that pushes whenever the run has reached minSilenceFrames
PushesAgain(silent, run, count, btime) ==
  /\ silent
  /\ run + count >= minSilenceFrames
  /\ btime > 0

\* run === minSilenceFrames on a frame of a group of `count` silent frames met
\* with `run` silent frames counted, and time > 0
Pushes(silent, run, count, btime) ==
  /\ silent
  /\ run < minSilenceFrames
  /\ run + count >= minSilenceFrames
  /\ btime > 0

\* the loop over the frames, a group at a time; times are in milliseconds,
\* a time t standing for the double t / 1000
RECURSIVE Scan(_, _, _, _)
Scan(groups, threshold, frameSize, s) ==
  IF groups = << >> THEN s
  ELSE LET g == Head(groups)
           silent == SumScale * g.sum < threshold
           \* the frame of the group on which run reaches minSilenceFrames
           bidx == s.idx + (minSilenceFrames - s.run) - 1
           btime == (bidx - minSilenceFrames \div 2) * HopMs
           pushes == Pushes(silent, s.run, g.count, btime)
           voiced == Voiced(g.sum, threshold, frameSize)
           \* the frame of the group on which voiceRun reaches minVoiceFrames
           need == MathMax(1, minVoiceFrames - s.voiceRun)
           oidx == s.idx + need - 1
           finds == ~s.onsetFound /\ voiced /\ need <= g.count
       IN Scan(Tail(groups), threshold, frameSize,
               [idx |-> s.idx + g.count,
                run |-> IF silent THEN s.run + g.count ELSE 0,
                voiceRun |-> IF s.onsetFound THEN s.voiceRun
                             ELSE IF ~voiced THEN 0
                             ELSE IF finds THEN s.voiceRun + need
                             ELSE s.voiceRun + g.count,
                onsetFound |-> s.onsetFound \/ finds,
                onsetTime |-> IF finds
                              THEN MathMax(0, (oidx - minVoiceFrames) * HopMs)
                              ELSE s.onsetTime,
                boundaryTimes |-> IF pushes THEN Append(s.boundaryTimes, btime)
                                  ELSE s.boundaryTimes])

\* the loop over the frames and the profile returned
BoundaryLoop(groups, threshold, frameSize, duration) ==
  LET s == Scan(groups, threshold, frameSize,
                [idx |-> 0, run |-> 0, voiceRun |-> 0, onsetFound |-> FALSE,
                 onsetTime |-> 0, boundaryTimes |-> << >>])
  IN [boundaryTimes |-> s.boundaryTimes,
      duration |-> duration,
      onsetTime |-> IF s.onsetFound THEN s.onsetTime ELSE 0]

\* the frames, their threshold and the loop over them
Analyze(groups, frames, frameSize, duration) ==
  BoundaryLoop(groups, Threshold(groups, frames, frameSize), frameSize, duration)

\* the frames of a clip of frameSize samples, hopSize samples apart
AnalyzeFrames(clip, frames, frameSize, hopSize) ==
  Analyze(FrameGroups(clip, clip.runs, 0, frames, frameSize, hopSize), frames,
          frameSize,
          Quotient(ChannelLength(clip, hopSize), clip.sampleRate))

AnalyzeSamples(clip, frameSize, hopSize) ==
  AnalyzeFrames(clip,
                FrameCount(ChannelLength(clip, hopSize), frameSize, hopSize),
                frameSize, hopSize)

\* analyzeAudioSilences(audioUrl) once the clip is decoded
analyzeAudioSilences(clip) ==
  AnalyzeSamples(clip, SamplesOf(clip.sampleRate, FrameMs),
                 SamplesOf(clip.sampleRate, HopMs))

\* the profile of the catch branch
EmptyProfile == [boundaryTimes |-> << >>, duration |-> Zero, onsetTime |-> 0]

Runs == [amplitude : Amplitudes, hops : RunLengths]

Clips ==
  UNION { [sampleRate : AnalyzerRates, runs : [1 .. k -> Runs]] : k \in 1 .. MaxRuns }

\* analyzeAudioSilences resolves with the profile of the clip
AnalyzeAudioSilences ==
  /\ analyzer.stage = "input"
  /\ analyzer' = [stage |-> "analyzed", clip |-> analyzer.clip,
                  profile |-> analyzeAudioSilences(analyzer.clip)]
  /\ UNCHANGED << pageVars, aligner, normalizer, segmenter >>

\* fetch or decodeAudioData rejects: the catch branch
AnalyzeFailed ==
  /\ analyzer.stage = "input"
  /\ analyzer' = [stage |-> "failed", clip |-> analyzer.clip,
                  profile |-> EmptyProfile]
  /\ UNCHANGED << pageVars, aligner, normalizer, segmenter >>

AnalyzerInit ==
  /\ PageInit
  /\ analyzer \in { [stage |-> "input", clip |-> clip] : clip \in Clips }
  /\ aligner = NotRun /\ normalizer = NotRun /\ segmenter = NotRun

AnalyzerNext ==
  \/ AnalyzeAudioSilences
  \/ AnalyzeFailed

SpecAnalyzer == AnalyzerInit /\ [][AnalyzerNext]_vars

\* ------------------------------------------------------------ observations
\* the elements that are audible
Playing == { h \in AudioIds : audios[h].status = "playing" }

\* the turn begun last (0 before the first)
LatestTurn == NextTurn - 1

\* the segment indices of turn t in the order their playback began
RECURSIVE PlayedFrom(_, _)
PlayedFrom(t, h) ==
  IF h > Len(audios) THEN << >>
  ELSE (IF audios[h].segment.turn = t THEN <<audios[h].segment.segmentIndex>> ELSE << >>)
       \o PlayedFrom(t, h + 1)

PlayedIndices(t) == PlayedFrom(t, 1)

\* an element that played to its end and reported nothing else
EndedNormally(h) ==
  /\ audios[h].status = "ended"
  /\ ~audios[h].errored
  /\ audios[h].promise = "resolved"

\* how often a completion callback of element h (onended, onerror, the catch
\* of play()) has run; each run increments the cursor
Advances(h) ==
  (IF audios[h].status = "ended" THEN 1 ELSE 0)
  + (IF audios[h].errored THEN 1 ELSE 0)
  + (IF audios[h].promise = "rejected" THEN 1 ELSE 0)

\* the reply of turn t is over: its stream completed within its session with
\* every index delivered, no other turn was begun, the queue has drained and
\* every element ended normally
ReplyPlayedOut(t) ==
  /\ streams[t].status = "complete"
  /\ streams[t].arrived = SegmentIndices
  /\ \A u \in Turns \ {t} : streams[u].status = "none"
  /\ audioQueue = << >> /\ ~isPlayingQueue
  /\ \A h \in AudioIds : EndedNormally(h)

\* ------------------------------------------------------------------ claims
\* C1: for every arrival order of the segments of one turn, with every audio
\* element ending normally, the segments begin playing in ascending sequence
\* index 0, 1, ..., each once.
C1_AscendingPlayback ==
  \A t \in Turns :
    ReplyPlayedOut(t) => PlayedIndices(t) = [i \in 1 .. MaxSegments |-> i - 1]

\* C2: within one turn the sequence indices of the segments whose playback
\* begins are strictly increasing; no segment is played again.
C2_StrictlyIncreasing ==
  \A h1, h2 \in AudioIds :
    (h1 < h2 /\ audios[h1].segment.turn = audios[h2].segment.turn)
      => audios[h1].segment.segmentIndex < audios[h2].segment.segmentIndex

\* C3: at most one audio element is playing at any time.
C3_OneAudioPlaying == Cardinality(Playing) <= 1

\* C4: a segment event of a stream that was in flight when
\* handleNewConversation ran changes neither the buffer, the cursor, the
\* active audio element, the Thinking flag nor the playback state.
C4_StaleSegmentDiscarded ==
  [][ \A t \in Turns :
        (streams[t].status = "stale" /\ streams'[t].arrived # streams[t].arrived)
          => UNCHANGED << audioQueue, currentQueueIndex, isPlayingQueue, currentAudio,
                          isProcessing, currentlyPlaying, messages, audios >> ]_vars

\* C5: a failing audio element advances the queue as a completed one does:
\* its callbacks move the cursor forward by exactly one.
C5_FailureAdvancesOnce == \A h \in AudioIds : Advances(h) <= 1

\* the state handleNewConversation leaves
ResetState ==
  /\ currentAudio = NoAudio
  /\ audioQueue = << >>
  /\ currentQueueIndex = 0
  /\ ~isPlayingQueue
  /\ currentlyPlaying = NoMessage
  /\ \A m \in Turns : messages[m] # "playing"
  /\ ~isProcessing
  /\ currentSubtitleText = EmptyText
  /\ lastSubtitle = EmptyText

\* C6: handleNewConversation, called in any state, leaves the previously
\* active audio element paused and released, the buffer empty, the cursor 0,
\* the queue-playing flag false, no message playing, the Thinking flag false
\* and both cue texts empty.
C6_ResetLeavesIdle ==
  [][ NewConversation =>
        /\ currentAudio # NoAudio => audios'[currentAudio].status # "playing"
        /\ ResetState' ]_vars

\* C6 witness: a reset has paused an element that was playing and shown a
\* cue, and the session is in the state the reset leaves.
C6_Witness ==
  /\ \E h \in AudioIds : audios[h].status = "paused" /\ audios[h].promise = "resolved"
  /\ \E t \in Turns : streams[t].status = "stale"
  /\ ResetState

\* C7: once a new turn has begun, no segment of an earlier turn is audible
\* or is started.
C7_EarlierTurnSilent ==
  \A h \in Playing : audios[h].segment.turn = LatestTurn

\* C8: an error event of the upstream stream resets the queue: the active
\* audio element is stopped, the buffered segments are discarded and the
\* session is Idle.
C8_StreamErrorResets ==
  [][ \A t \in Turns :
        ErrorChunk(t) => /\ Playing' = {}
                         /\ currentAudio' = NoAudio
                         /\ audioQueue' = << >>
                         /\ ~isPlayingQueue'
                         /\ currentlyPlaying' = NoMessage
                         /\ ~isProcessing' ]_vars

C10_FirstSegmentOnce == \A t \in Turns : firstSegmentSignals[t] <= 1

\* a buffer in ascending sequence index
Sorted(queue) ==
  \A i, j \in 1 .. Len(queue) : i < j => queue[i].segmentIndex <= queue[j].segmentIndex

\* the entries of a buffer
Entries(queue) == { queue[i] : i \in 1 .. Len(queue) }

Finishes(h) == AudioEnded(h) \/ AudioError(h) \/ PlayRejected(h)

\* the Idle state of the queue
Idle ==
  /\ currentAudio = NoAudio
  /\ currentlyPlaying = NoMessage
  /\ \A m \in Turns : messages[m] # "playing"
  /\ currentSubtitleText = EmptyText
  /\ audioQueue = << >>
  /\ currentQueueIndex = 0
  /\ ~isPlayingQueue

\* C12: when the active element finishes (end of stream, error, or rejected
\* play) and the buffer holds no segment at the advanced cursor, the queue is
\* Idle afterwards: no active audio element, no message marked playing, the
\* cue text empty, the buffer empty and the cursor 0.
C12_ExhaustionGoesIdle ==
  [][ \A h \in AudioSlots :
        (Finishes(h) /\ h = currentAudio /\ currentQueueIndex + 1 >= Len(audioQueue))
          => Idle' /\ audios'[h].status # "playing" ]_vars

\* C12 witness: the active element played a segment that showed a cue, ended
\* with nothing left in the buffer, and the queue is Idle with the message
\* of the reply still present.
C12_Witness ==
  /\ Idle
  /\ lastSubtitle # EmptyText
  /\ \E h \in AudioIds : EndedNormally(h) /\ messages[audios[h].messageId] = "idle"

\* C13: a position report emits a cue change (sets the cue text shown) only
\* when the display text of the cue at currentTime differs from the text
\* emitted last, and afterwards the text emitted last is that display text,
\* so the same currentTime delivered again for the same segment emits nothing.
\* (A step that changes the elements, the queue or the streams is no
\* position report.)
C13_CueEmissionIdempotent ==
  [][ UNCHANGED << audios, queueRefs, streams >> =>
      \A h \in AudioSlots, currentTime \in 0 .. MaxTime :
        TimeUpdate(h, currentTime) =>
          LET show == Show(h, currentTime)
          IN /\ IF show # lastSubtitle
                THEN currentSubtitleText' = show
                ELSE UNCHANGED << currentSubtitleText, lastSubtitle >>
             /\ audios' = audios
             /\ lastSubtitle' = show ]_vars

\* C13 witness: a cue was emitted for an element that is playing, and the
\* text emitted last is the text shown.
C13_Witness ==
  /\ lastSubtitle = <<"a">> /\ currentSubtitleText = <<"a">>
  /\ \E h \in AudioIds : /\ audios[h].status = "playing" /\ audios[h].promise = "resolved"
                         /\ h = currentAudio
                         /\ \E currentTime \in 0 .. MaxTime : Show(h, currentTime) = lastSubtitle

\* C19: every segment accepted during a turn begins playback when every
\* started element reports its end and neither a reset nor a new turn
\* intervenes: once the reply has played out, with the buffer drained for
\* good, every index the stream delivered is among the indices played.
C19_EverySegmentPlayed ==
  \A t \in Turns :
    ReplyPlayedOut(t) =>
      \A idx \in streams[t].arrived :
        \E h \in AudioIds : audios[h].segment = SegmentData(t, idx)

\* the cue invariant: starts do not decrease, no cue begins before its
\* predecessor ends, and every cue lasts at least MIN_DUR
CueInvariant(cues) ==
  /\ \A i \in 1 .. Len(cues) : cues[i].end_time - cues[i].start_time >= MIN_DUR
  /\ \A i \in 2 .. Len(cues) : /\ cues[i].start_time >= cues[i - 1].start_time
                                /\ cues[i].start_time >= cues[i - 1].end_time

\* the number of chunks refineSubtitlesWithAudio aims at
ChunkCount == IF Len(aligner.fallback) >= 1 THEN Len(aligner.fallback) ELSE 1

\* the boundaries of the profile the aligner may use
UsableCount == Len(Usable(aligner.profile.boundaryTimes, aligner.profile.duration))

\* C14: every cue list the aligner returns, by equal division or by
\* refineSubtitlesWithAudio on any of its paths, satisfies the cue invariant.
C14_CueInvariant ==
  /\ aligner.stage = "generated" => CueInvariant(aligner.fallback)
  /\ aligner.stage = "refined" => CueInvariant(aligner.cues)

\* C15: with fewer than n - 1 usable boundaries for n chunks the fitted path
\* is not entered: the cues returned are the fallback, shifted or not, and
\* were never fitted and put to the sanity check.
C15_FallbackSafety ==
  (aligner.stage = "refined" /\ UsableCount < ChunkCount - 1)
    => aligner.path \in {"shifted", "fallback"}

\* C15 witness: three chunks, a profile with two boundaries of which one is
\* too close to the start to be usable, and the fallback was returned.
C15_Witness ==
  /\ aligner.stage = "refined"
  /\ ChunkCount = 3
  /\ Len(aligner.profile.boundaryTimes) = 2 /\ UsableCount = 1
  /\ aligner.profile.duration > 0
  /\ aligner.path \in {"shifted", "fallback"}

\* C16: with fewer than n - 1 boundaries detected the aligner returns the
\* equal division of [0, duration]: cue i of n spans exactly
\* [(i - 1) * duration / n, i * duration / n], whatever the onset.
C16_PureEqualDivision ==
  (/\ aligner.stage = "refined"
   /\ aligner.hasText /\ aligner.durationSec > 0
   /\ Len(aligner.profile.boundaryTimes) < ChunkCount - 1)
    => /\ Len(aligner.cues) = ChunkCount
       /\ \A i \in 1 .. Len(aligner.cues) :
            /\ aligner.cues[i].start_time * ChunkCount = (i - 1) * aligner.durationSec
            /\ aligner.cues[i].end_time * ChunkCount = i * aligner.durationSec

\* C20: when the fitted cues fail the sanity check the aligner returns the
\* equal-division cues shifted earlier by min(onset, 0.15 s), as the fallback
\* of a profile with too few boundaries is shifted.
C20_RejectedFitIsShifted ==
  (aligner.stage = "refined" /\ aligner.path = "rejected")
    => aligner.cues = Shifted(aligner.fallback, Shift(aligner.profile.onsetTime))

\* C18: for a decoded input of L samples at rate R the normalizer emits
\* exactly N = ceil(16000 * L / R) samples, 2N bytes of data after the
\* 44-byte header, so N / 16000 differs from L / R by less than 1 / 16000.
C18_DurationPreserved ==
  normalizer.stage = "converted" =>
    LET L == normalizer.decoded.length
        R == normalizer.decoded.sampleRate
        N == normalizer.wav.pcmLength
    IN /\ N = (TargetSampleRate * L + R - 1) \div R
       /\ normalizer.wav.dataSize = 2 * N
       /\ normalizer.wav.byteLength = HeaderBytes + 2 * N
       /\ N * R - TargetSampleRate * L < R
       /\ TargetSampleRate * L - N * R < R

\* the time t, in milliseconds, as the double the analyzer returns
Seconds(t) == Quotient(t, SecondMs)

\* C17: the boundary list the analyzer returns is strictly increasing and
\* every boundary lies strictly inside (0, duration).
C17_BoundariesInsideClip ==
  analyzer.stage \in {"analyzed", "failed"} =>
    LET bt == analyzer.profile.boundaryTimes
    IN /\ \A i \in 1 .. Len(bt) - 1 : Less(Seconds(bt[i]), Seconds(bt[i + 1]))
       /\ \A i \in 1 .. Len(bt) :
            /\ Less(Zero, Seconds(bt[i]))
            /\ Less(Seconds(bt[i]), analyzer.profile.duration)

\* C21: right after a position report of the active audio element at time t
\* the subtitle shown is the display text of the first cue of its segment
\* whose window holds t (empty when there is none), also for a segment
\* started after the queue went idle by exhaustion.  A report whose cue
\* text is the last emitted text changes nothing, so the state right after
\* it is the state it can occur in: there the subtitle is that cue text.
C21_SubtitleFollowsCue ==
  \A h \in AudioIds, currentTime \in 0 .. MaxTime :
    ( /\ h = currentAudio
      /\ audios[h].status = "playing" /\ audios[h].promise = "resolved"
      /\ ~CueChanged(Show(h, currentTime), lastSubtitle) )
    => currentSubtitleText = Show(h, currentTime)

\* C22: once the stream call of a turn has returned or thrown, whatever it
\* delivered, the thinking flag is false.
C22_ThinkingEnds ==
  [][ \A t \in Turns : (Open(t) /\ ~Open(t)') => ~isProcessing' ]_vars

\* the boundaries of the profile strictly inside (0.15 s, duration - 0.15 s)
InsideBoundaries ==
  { aligner.profile.boundaryTimes[k] : k \in DOMAIN aligner.profile.boundaryTimes }
    \cap { t \in 0 .. aligner.profile.duration :
             t > Eps /\ t < aligner.profile.duration - Eps }

\* c[i] of the fitted formula: the (i + 1)-th smallest boundary inside the
\* clip, c[-1] = 0 and c[n - 1] = duration
CutPoint(i) ==
  IF i < 0 THEN 0
  ELSE IF i = ChunkCount - 1 THEN aligner.profile.duration
  ELSE CHOOSE t \in InsideBoundaries :
         Cardinality({ u \in InsideBoundaries : u < t }) = i

\* s of the fitted formula: min(max(0, onset), 0.15)
OnsetShift ==
  LET onset == IF aligner.profile.onsetTime > 0 THEN aligner.profile.onsetTime ELSE 0
  IN IF onset < MaxShift THEN onset ELSE MaxShift

\* C23: when the fitted path is accepted for n >= 2 chunks, cue i (from 0)
\* starts at max(0, c[i - 1] - s) and ends at max(start + 0.2, c[i] - s),
\* c being the n - 1 smallest boundaries inside (0.15, duration - 0.15),
\* c[-1] = 0, c[n - 1] = duration, s = min(max(0, onset), 0.15); further
\* boundaries are ignored.
C23_FittedFormula ==
  (aligner.stage = "refined" /\ aligner.path = "fitted") =>
    /\ ChunkCount >= 2
    /\ Len(aligner.cues) = ChunkCount
    /\ \A i \in 0 .. ChunkCount - 1 :
         LET start == IF CutPoint(i - 1) - OnsetShift > 0
                      THEN CutPoint(i - 1) - OnsetShift ELSE 0
             end == IF start + MinStretch > CutPoint(i) - OnsetShift
                    THEN start + MinStretch ELSE CutPoint(i) - OnsetShift
         IN /\ aligner.cues[i + 1].start_time = start
            /\ aligner.cues[i + 1].end_time = end
            /\ aligner.cues[i + 1].text = aligner.fallback[i + 1].text

\* C23 witness: a fitted list of two cues from a profile with two boundaries
\* inside the clip and an onset beyond the cap of the shift.
C23_Witness ==
  /\ aligner.stage = "refined" /\ aligner.path = "fitted"
  /\ ChunkCount = 2
  /\ Cardinality(InsideBoundaries) = 2
  /\ aligner.profile.onsetTime > MaxShift

\* the n-th smallest of a set of numbers
NthOf(set, n) == CHOOSE x \in set : Cardinality({ y \in set : y < x }) = n - 1

\* the whitespace split: the maximal runs of characters that are not blank
WordsOf(t) ==
  LET starts == { i \in 1 .. Len(t) :
                    t[i] \notin Blanks /\ (i = 1 \/ t[i - 1] \in Blanks) }
      end(i) == CHOOSE j \in i .. Len(t) :
                  /\ \A k \in i .. j : t[k] \notin Blanks
                  /\ j = Len(t) \/ t[j + 1] \in Blanks
  IN [n \in 1 .. Cardinality(starts) |->
        SubSeq(t, NthOf(starts, n), end(NthOf(starts, n)))]

\* the punctuation split: the text cut after every sentence-ending mark, the
\* unterminated remainder a chunk of its own; blank chunks are dropped
SentencesOf(t) ==
  LET marks == { i \in 1 .. Len(t) : t[i] \in SentenceEnders }
      from(e) == 1 + (IF \E m \in marks : m < e
                      THEN CHOOSE m \in marks : m < e /\ \A k \in marks : k < e => k <= m
                      ELSE 0)
      piece(e) == Trim(SubSeq(t, from(e), e))
      ends == { e \in marks \cup {Len(t)} : piece(e) # << >> }
  IN [n \in 1 .. Cardinality(ends) |-> piece(NthOf(ends, n))]

\* the 12-character windows of the text without its punctuation
WindowsOf(t) ==
  LET noPunct == stripPunctForDisplay(t)
  IN [n \in 1 .. (Len(noPunct) + MAX_CHARS - 1) \div MAX_CHARS |->
        SubSeq(noPunct, MAX_CHARS * (n - 1) + 1,
               IF MAX_CHARS * n < Len(noPunct) THEN MAX_CHARS * n ELSE Len(noPunct))]

\* the text the segmenter cut, trimmed
SegmentedText == Trim(segmenter.rawText)

\* C24 as claimed: the whitespace split when it yields >= 3 tokens, else the
\* punctuation split when it yields >= 2 chunks, else, always, 12-character
\* windows over the punctuation-stripped text.
C24_SegmentationOrder ==
  (segmenter.stage = "segmented" /\ SegmentedText # << >>) =>
    segmenter.segs =
      IF Len(WordsOf(SegmentedText)) >= 3 THEN WordsOf(SegmentedText)
      ELSE IF Len(SentencesOf(SegmentedText)) >= 2 THEN SentencesOf(SegmentedText)
      ELSE WindowsOf(SegmentedText)

\* C24 amended: as claimed, but a text of exactly two whitespace tokens that
\* the punctuation split leaves in one chunk is cut into its two tokens, and
\* only a text without two tokens is cut into windows.
C24_SegmentationOrderAmended ==
  (segmenter.stage = "segmented" /\ SegmentedText # << >>) =>
    segmenter.segs =
      IF Len(WordsOf(SegmentedText)) >= 3 THEN WordsOf(SegmentedText)
      ELSE IF Len(SentencesOf(SegmentedText)) >= 2 THEN SentencesOf(SegmentedText)
      ELSE IF Len(WordsOf(SegmentedText)) = 2 THEN WordsOf(SegmentedText)
      ELSE WindowsOf(SegmentedText)

\* C24 witness: a text of two tokens and a single sentence, the second
\* sentence unterminated, was cut, and a text of one token into two windows.
C24_Witness ==
  /\ segmenter.stage = "segmented"
  /\ Len(WordsOf(SegmentedText)) = 2
  /\ Len(SentencesOf(SegmentedText)) = 2
  /\ SegmentedText[Len(SegmentedText)] \notin SentenceEnders
  /\ segmenter.segs = SentencesOf(SegmentedText)

\* C25: every boundary of the profile the analyzer returns lies strictly
\* inside (0.15 s, duration - 0.15 s): 0.15 < t and t + 0.15 < duration.
C25_BoundariesInsideMargins ==
  analyzer.stage \in {"analyzed", "failed"} =>
    LET bt == analyzer.profile.boundaryTimes
    IN \A i \in 1 .. Len(bt) :
         /\ Less(Seconds(Eps), Seconds(bt[i]))
         /\ Less(Seconds(bt[i] + Eps), analyzer.profile.duration)

\* the frames of a clip in groups, and their threshold
FramesOfSamples(clip, frameSize, hopSize) ==
  LET frames == FrameCount(ChannelLength(clip, hopSize), frameSize, hopSize)
      groups == FrameGroups(clip, clip.runs, 0, frames, frameSize, hopSize)
  IN [groups |-> groups, frames |-> frames, frameSize |-> frameSize,
      threshold |-> Threshold(groups, frames, frameSize)]

FramesOf(clip) ==
  FramesOfSamples(clip, SamplesOf(clip.sampleRate, FrameMs),
                  SamplesOf(clip.sampleRate, HopMs))

\* the index of the first frame of group j
RECURSIVE FirstFrame(_, _)
FirstFrame(groups, j) ==
  IF j = 1 THEN 0 ELSE FirstFrame(groups, j - 1) + groups[j - 1].count

\* the maximal runs of consecutive frames of the groups that are In
MaximalRuns(groups, In(_)) ==
  LET n == Len(groups)
  IN { [first |-> FirstFrame(groups, a),
        length |-> FirstFrame(groups, b) + groups[b].count - FirstFrame(groups, a)] :
         <<a, b>> \in { <<a, b>> \in (1 .. n) \X (1 .. n) :
                          /\ a <= b
                          /\ \A j \in a .. b : In(j)
                          /\ a = 1 \/ ~In(a - 1)
                          /\ b = n \/ ~In(b + 1) } }

\* the maximal runs of consecutive frames whose RMS is below the threshold
SilentRuns(f) ==
  LET silent(j) == SumScale * f.groups[j].sum < f.threshold
  IN MaximalRuns(f.groups, silent)

\* the boundary of a run that reaches minSilenceFrames frames: the midpoint of
\* the run at the frame on which it reaches them
BoundaryOf(r) ==
  (r.first + minSilenceFrames - 1 - minSilenceFrames \div 2) * HopMs

OneBoundaryPerRun(f, bt) ==
  LET long == { r \in SilentRuns(f) : r.length >= minSilenceFrames }
  IN /\ Len(bt) = Cardinality(long)
     /\ { bt[i] : i \in 1 .. Len(bt) } = { BoundaryOf(r) : r \in long }

\* C26: each maximal run of frames below the threshold contributes one
\* boundary when it reaches 18 frames, emitted for the frame on which it
\* reaches them, and no other: a shorter run has none, a longer one no second.
C26_OneBoundaryPerRun ==
  analyzer.stage = "analyzed" =>
    OneBoundaryPerRun(FramesOf(analyzer.clip), analyzer.profile.boundaryTimes)

ShortAndLongRun(f, bt) ==
  /\ \E r \in SilentRuns(f) : r.length < minSilenceFrames
  /\ \E r \in SilentRuns(f) : r.length > minSilenceFrames /\ bt = << BoundaryOf(r) >>

\* C26 witness: a clip with a silent run of fewer than 18 frames and one of
\* more than 18 was analyzed and the profile has the one boundary of the
\* longer run.
C26_Witness ==
  /\ analyzer.stage = "analyzed"
  /\ ShortAndLongRun(FramesOf(analyzer.clip), analyzer.profile.boundaryTimes)

\* the maximal runs of consecutive frames whose RMS reaches
\* min(0.08, 1.6 * threshold)
VoicedRuns(f) ==
  LET voiced(j) == Voiced(f.groups[j].sum, f.threshold, f.frameSize)
  IN MaximalRuns(f.groups, voiced)

\* the start time of the first run of at least minVoiceFrames voiced frames,
\* 0 without one
OnsetOfFirstRun(f) ==
  LET long == { r \in VoicedRuns(f) : r.length >= minVoiceFrames }
  IN IF long = {} THEN 0
     ELSE (CHOOSE r \in long : \A other \in long : r.first <= other.first).first * HopMs

\* C27: the onset of the profile is the start time of the first run of at
\* least 12 consecutive frames whose RMS exceeds min(0.08, 1.6 * threshold),
\* the time of the run's first frame, and 0 when there is no such run.
C27_OnsetIsRunStart ==
  analyzer.stage = "analyzed" =>
    analyzer.profile.onsetTime = OnsetOfFirstRun(FramesOf(analyzer.clip))

\* the 35th percentile of the frames: the sum of squares of the frame at
\* index floor(0.35 * frames) of the frames sorted by their RMS
PercentileOf(f) ==
  LET index == (Percentile * f.frames) \div 100
      sums == { f.groups[g].sum : g \in DOMAIN f.groups }
  IN CHOOSE sum \in sums :
       /\ CountUpTo(f.groups, sum) > index
       /\ \A other \in sums : CountUpTo(f.groups, other) > index => sum <= other

\* the percentile clamped to [0.005, 0.03]
ClampedPercentile(f) ==
  LET low == SumOfLevel(MinThreshold, f.frameSize)
      high == SumOfLevel(MaxThreshold, f.frameSize)
      q == SumScale * PercentileOf(f)
  IN IF q < low THEN low ELSE IF q > high THEN high ELSE q

\* C28: the threshold the analyzer works with is the 35th percentile of the
\* frame RMS values (index floor(0.35 * frameCount) of the sorted values)
\* clamped to [0.005, 0.03], also when that percentile is exactly 0.
C28_ThresholdIsClampedPercentile ==
  (analyzer.stage = "analyzed" /\ FramesOf(analyzer.clip).frames > 0) =>
    FramesOf(analyzer.clip).threshold = ClampedPercentile(FramesOf(analyzer.clip))

\* the sum of the samples of the channels from channel k on
RECURSIVE SumFrom(_, _)
SumFrom(samples, k) ==
  IF k > Len(samples) THEN 0 ELSE samples[k] + SumFrom(samples, k + 1)

\* C29: the sample of the mono buffer is, for a decoded buffer of c >= 2
\* channels, the mean of the samples of all c channels at that index, and for
\* c = 1 the sample of the one channel unchanged.
C29_DownmixIsMeanOfAllChannels ==
  normalizer.stage = "converted" =>
    LET c == normalizer.decoded.numberOfChannels
        samples == normalizer.decoded.samples
    IN IF c = 1 THEN normalizer.monoBuffer = samples[1]
       ELSE c * normalizer.monoBuffer = SumFrom(samples, 1)

\* C30: a fitted cue list that passed the sanity check is contiguous: the
\* first cue starts at 0, every cue ends where the next one starts, and the
\* last cue ends at duration - min(max(0, onset), 0.15).
C30_FittedCuesContiguous ==
  (aligner.stage = "refined" /\ aligner.path = "fitted") =>
    LET cues == aligner.cues
    IN /\ cues[1].start_time = 0
       /\ \A i \in 1 .. Len(cues) - 1 : cues[i].end_time = cues[i + 1].start_time
       /\ cues[Len(cues)].end_time = aligner.profile.duration - OnsetShift

\* C30 witness: a fitted list of three cues was accepted for a profile whose
\* onset shifts the cues.
C30_Witness ==
  /\ aligner.stage = "refined" /\ aligner.path = "fitted"
  /\ Len(aligner.cues) = 3
  /\ OnsetShift > 0
  /\ aligner.cues[3].end_time < aligner.profile.duration

====
